---- MODULE Spec2Model ----
(***************************************************************************)
(* A model of scripts/update_indicators.py: the daily job that builds the  *)
(* eight dashboard dials (six single-series dials, two composite dials)    *)
(* and writes them to public/indicators.json, which the next run reads     *)
(* back to smooth the composite dials.                                     *)
(*                                                                         *)
(* Numbers.  Python floats are modelled as exact rationals <<n, d>> with   *)
(* d > 0, kept in lowest terms; binary rounding error is not modelled.     *)
(* Observation values are carried as integers in hundredths of the         *)
(* provider's unit (3.45 is 345); where the code does arithmetic on a      *)
(* value it is first turned into the rational it stands for.               *)
(* Dates "YYYY-MM-DD" are carried as the integer YYYYMMDD, so the string   *)
(* order the code sorts by is the integer order.                           *)
(* None is the empty tuple <<>>.                                           *)
(***************************************************************************)
EXTENDS Integers, Sequences, FiniteSets, TLC

VARIABLES
    pc,            \* position of the process: "idle", inside make_cards, "returned"
    run,           \* number of runs of main() started so far
    outfile,       \* public/indicators.json: absent, unparsable text, or a JSON document
    prev_payload,  \* make_cards: the document load_previous_payload() returned
    cards,         \* make_cards: the list of cards built so far
    last,          \* what the provider calls of the dial built last returned
    rec,           \* locals and return value of the last build_recession_dial call
    cs,            \* locals and return value of the last build_credit_stress_dial call
    call           \* argument and result of the last call of a pure helper

vars == <<pc, run, outfile, prev_payload, cards, last, rec, cs, call>>

----------------------------------------------------------------------------
(* Bounds of the model *)

\* runs of main() in one behaviour
MaxRuns == 3
\* runs of main() in one behaviour with the same composite scores every day
SteadyRuns == 20
\* longest series handed to tail_since on its own
MaxTail == 3
\* longest history handed to percentile_score on its own
MaxHist == 4
\* largest value in such a history
MaxVal == 2
\* longest of the short series a provider returns to a composite builder
SeriesLen == 2
\* observations a long HY series has beyond the 40 the momentum kicker asks for
LongExtra == 1

----------------------------------------------------------------------------
(* Rationals *)

None == <<>>

Abs(i) == IF i < 0 THEN -i ELSE i

RECURSIVE GCD(_, _)
GCD(a, b) == IF b = 0 THEN a ELSE GCD(b, a % b)

Norm(n, d) ==
    LET g == GCD(Abs(n), d)
    IN  <<n \div g, d \div g>>

R(i) == <<i, 1>>
Frac(n, d) == Norm(n, d)
RAdd(x, y) == Norm(x[1] * y[2] + y[1] * x[2], x[2] * y[2])
RSub(x, y) == Norm(x[1] * y[2] - y[1] * x[2], x[2] * y[2])
RMul(x, y) == Norm(x[1] * y[1], x[2] * y[2])
RLt(x, y) == x[1] * y[2] < y[1] * x[2]
RLe(x, y) == x[1] * y[2] <= y[1] * x[2]
\* Python's min(a, b) and max(a, b): the first argument wins a tie
RMin(x, y) == IF RLt(y, x) THEN y ELSE x
RMax(x, y) == IF RLt(x, y) THEN y ELSE x

\* round(x, 0) on a float: to the nearest integer, a tie to the even one
PyRound0(x) ==
    LET q == x[1] \div x[2]
        r == x[1] % x[2]
    IN  IF 2 * r < x[2] THEN R(q)
        ELSE IF 2 * r > x[2] THEN R(q + 1)
        ELSE IF q % 2 = 0 THEN R(q) ELSE R(q + 1)

\* round(x, 1): to the nearest tenth
PyRound1(x) == RMul(PyRound0(RMul(x, R(10))), Frac(1, 10))

\* the float an observation value in hundredths stands for
FloatOf(v) == Frac(v, 100)

----------------------------------------------------------------------------
(* Utilities of the dial construction *)

Last(s) == s[Len(s)]

\* a clamp that forgets its upper end
ClampBelowOnly(x, lo, hi) == RMax(lo, x)

clamp(x, lo, hi) == RMax(lo, RMin(hi, x))

status_from_band(value, good_max, warn_max, higher_is_worse) ==
    IF higher_is_worse
    THEN IF RLe(value, good_max) THEN "GOOD"
         ELSE IF RLe(value, warn_max) THEN "WARN"
         ELSE "DELAYED"
    ELSE IF RLe(good_max, value) THEN "GOOD"
         ELSE IF RLe(warn_max, value) THEN "WARN"
         ELSE "DELAYED"

\* sorted(s) and list.sort(key=...): a stable sort.  keys[i] is the integer
\* s[i] is sorted by.  A list already in order is returned as it is; otherwise
\* the element that goes to place k is the one with k - 1 elements before it in
\* the order "smaller key, or equal key and earlier in s".
SortedBy(s, keys) ==
    LET n == Len(s)
        place == [i \in 1..n |->
                    1 + Cardinality({j \in 1..n :
                            \/ keys[j] < keys[i]
                            \/ keys[j] = keys[i] /\ j < i})]
    IN  IF \A i \in 1..(n - 1) : keys[i] <= keys[i + 1] THEN s
        ELSE [k \in 1..n |-> s[CHOOSE i \in 1..n : place[i] = k]]

sorted(s) == SortedBy(s, s)

\* bisect.bisect_right(a, x): binary search over the 0-based window [lo, hi)
RECURSIVE Bisect(_, _, _, _)
Bisect(a, x, lo, hi) ==
    IF lo < hi
    THEN LET mid == (lo + hi) \div 2
         IN  IF x < a[mid + 1] THEN Bisect(a, x, lo, mid)
             ELSE Bisect(a, x, mid + 1, hi)
    ELSE lo

\* bisect.bisect_left: the insertion point before the elements equal to x
RECURSIVE BisectLeft(_, _, _, _)
BisectLeft(a, x, lo, hi) ==
    IF lo < hi
    THEN LET mid == (lo + hi) \div 2
         IN  IF a[mid + 1] < x THEN BisectLeft(a, x, mid + 1, hi)
             ELSE BisectLeft(a, x, lo, mid)
    ELSE lo

bisect_left(a, x) == BisectLeft(a, x, 0, Len(a))

bisect_right(a, x) == Bisect(a, x, 0, Len(a))

percentile_score(current, history_vals, invert) ==
    IF history_vals = <<>> THEN R(50)
    ELSE LET vals == sorted(history_vals)
             r == Frac(bisect_right(vals, current), Len(vals))
             r2 == IF invert THEN RSub(R(1), r) ELSE r
         IN  clamp(RMul(r2, R(100)), R(0), R(100))

\* the smoothing with the two weights exchanged
SmoothSwapped(current, prev, alpha) ==
    IF prev = None THEN current
    ELSE RAdd(RMul(alpha, prev), RMul(RSub(R(1), alpha), current))

smooth_with_previous(current, prev, alpha) ==
    IF prev = None THEN current
    ELSE RAdd(RMul(alpha, current), RMul(RSub(R(1), alpha), prev))

----------------------------------------------------------------------------
(* Dates and series.  An observation is <<date, value>>; a series is a     *)
(* sequence of observations.  An operation that can raise returns          *)
(* [raised, err, series]: raised says the call left by an exception whose  *)
(* text is err.                                                            *)

Ok(s) == [raised |-> FALSE, err |-> "", series |-> s]
Raise(e) == [raised |-> TRUE, err |-> e, series |-> <<>>]

DateYear(dt) == dt \div 10000
DateMonth(dt) == (dt \div 100) % 100
DateDay(dt) == dt % 100

IsLeap(y) == (y % 4 = 0 /\ y % 100 # 0) \/ y % 400 = 0

DaysInMonth(y, m) ==
    IF m = 2 THEN (IF IsLeap(y) THEN 29 ELSE 28)
    ELSE IF m \in {4, 6, 9, 11} THEN 30 ELSE 31

\* datetime.date(y, m, d) accepts exactly these
ValidDate(y, m, d) ==
    /\ y >= 1 /\ y <= 9999
    /\ m >= 1 /\ m <= 12
    /\ d >= 1 /\ d <= DaysInMonth(y, m)

\* _to_date(s): whether date(int(y), int(m), int(d)) raises
to_date_raises(dt) == ~ValidDate(DateYear(dt), DateMonth(dt), DateDay(dt))

\* last_d.replace(year=last_d.year - years): the new date, or 0 when it raises
ReplaceYear(dt, years) ==
    LET y == DateYear(dt) - years
    IN  IF ValidDate(y, DateMonth(dt), DateDay(dt))
        THEN y * 10000 + DateMonth(dt) * 100 + DateDay(dt)
        ELSE 0

tail_since(series, years) ==
    IF series = <<>> THEN Ok(series)
    ELSE LET last_d == Last(series)[1]
         IN  IF to_date_raises(last_d) THEN Raise("ValueError: bad date")
             ELSE LET cutoff == ReplaceYear(last_d, years)
                  IN  IF cutoff = 0 THEN Raise("ValueError: day is out of range for month")
                      ELSE IF \E i \in 1..Len(series) : to_date_raises(series[i][1])
                           THEN Raise("ValueError: bad date")
                           ELSE Ok(SelectSeq(series, LAMBDA o : o[1] >= cutoff))

\* db.get(d) of the dict built from b: the value of the last entry dated d
DictIndex(b, d) ==
    LET hits == {i \in 1..Len(b) : b[i][1] = d}
    IN  IF hits = {} THEN 0 ELSE CHOOSE i \in hits : \A j \in hits : j <= i

align_by_date(a, b) ==
    LET hit == SelectSeq(a, LAMBDA o : DictIndex(b, o[1]) # 0)
    IN  [i \in 1..Len(hit) |-> <<hit[i][1], hit[i][2], b[DictIndex(b, hit[i][1])][2]>>]

\* max(closes) of a non-empty list
MaxOf(s) == CHOOSE m \in {s[i] : i \in 1..Len(s)} : \A i \in 1..Len(s) : s[i] <= m

\* bars: sequence of PriceBar, here <<date, close>>
drawdown_pct(bars, lookback_days) ==
    IF Len(bars) < (IF 5 > lookback_days THEN 5 ELSE lookback_days) THEN None
    ELSE LET window == SubSeq(bars, Len(bars) - lookback_days + 1, Len(bars))
             closes == [i \in 1..Len(window) |-> window[i][2]]
             peak == MaxOf(closes)
             lastc == Last(closes)
         IN  IF peak <= 0 THEN None
             ELSE RMul(RSub(Frac(lastc, peak), R(1)), R(100))

----------------------------------------------------------------------------
(* Providers.  A response is what one HTTP call produced:                  *)
(* [raised, err, rows] where a row is [date, value, missing]; missing      *)
(* marks a value the code cannot use ("." at FRED, a non-number at Stooq). *)

\* bars.sort(key=lambda b: b.date) and out.sort(key=lambda x: x[0])
SortByDate(s) == SortedBy(s, [i \in 1..Len(s) |-> s[i][1]])

Usable(rows) ==
    LET keep == SelectSeq(rows, LAMBDA r : ~r.missing)
    IN  [i \in 1..Len(keep) |-> <<keep[i].date, keep[i].value>>]

\* fred_latest: the first usable observation of the response, None on any failure
fred_latest(resp) ==
    IF resp.raised THEN None
    ELSE IF resp.rows = <<>> THEN None
    ELSE LET u == Usable(resp.rows)
         IN  IF u = <<>> THEN None ELSE Head(u)

\* fred_series: raises what the HTTP call raises
fred_series(resp) ==
    IF resp.raised THEN Raise(resp.err)
    ELSE Ok(SortByDate(Usable(resp.rows)))

stooq_daily_closes(resp) ==
    IF resp.raised THEN Raise(resp.err)
    ELSE Ok(SortByDate(Usable(resp.rows)))

\* tail_since(fred_series(...), years=years) inside a try block
FetchTail(resp, years) ==
    LET fs == fred_series(resp)
    IN  IF fs.raised THEN fs ELSE tail_since(fs.series, years)

Values(series) == [i \in 1..Len(series) |-> series[i][2]]

----------------------------------------------------------------------------
(* Constants of the composite dials *)

CurveYears == 15
ConfirmYears == 20
CreditYears == 15
SahmThreshold == 20
CoinThreshold == 15
CurveCap == 35
KickerMinLen == 40
KickerOffset == 31
KickerRank == 90
KickerBonus == 5

Warning(what, e) == [msg |-> what, err |-> e]
Tooltip(text, warnings) == [text |-> text, warnings |-> warnings]
Component(name, val, w) == [name |-> name, val |-> val, w |-> w]

\* [c for c in components if c.val is not None]
Available(components) == SelectSeq(components, LAMBDA c : c.val # None)

\* sum(w for _, _, w in available)
RECURSIVE WeightSum(_)
WeightSum(available) ==
    IF available = <<>> THEN R(0)
    ELSE RAdd(WeightSum(SubSeq(available, 1, Len(available) - 1)), Last(available).w)

----------------------------------------------------------------------------
(* build_recession_dial.  resp holds the responses of its three            *)
(* fred_series calls: [curve, sahm, coin].                                 *)

\* one try block: the series, or the exception that ends the block
RecFetch(resp, years) ==
    LET ft == FetchTail(resp, years)
    IN  IF ft.raised THEN ft
        ELSE IF ft.series = <<>> THEN Raise("empty series")
        ELSE ft

\* the declared weights, not divided by their sum
KeepWeights(available, wsum) == available

\* norm = [(name, float(val), w / wsum) for ... in available]
Renormalise(available, wsum) ==
    [i \in 1..Len(available) |->
        Component(available[i].name, available[i].val,
                  RMul(available[i].w, <<wsum[2], wsum[1]>>))]

\* a cap that asks for both confirmations to be there and low
CurveEffectiveNeedsBoth(curve_score, sahm_score, coin_score) ==
    IF /\ curve_score # None /\ sahm_score # None /\ coin_score # None
       /\ RLt(sahm_score, R(SahmThreshold)) /\ RLt(coin_score, R(CoinThreshold))
    THEN RMin(curve_score, R(CurveCap))
    ELSE curve_score

\* a cap that one low confirmation is enough for
CurveEffectiveEither(curve_score, sahm_score, coin_score) ==
    LET sahm_ok == sahm_score # None /\ RLe(R(SahmThreshold), sahm_score)
        coin_ok == coin_score # None /\ RLe(R(CoinThreshold), coin_score)
    IN  IF curve_score # None /\ (~sahm_ok \/ ~coin_ok)
        THEN RMin(curve_score, R(CurveCap))
        ELSE curve_score

\* the "too-early antidote": the curve score that enters the blend
CurveEffective(curve_score, sahm_score, coin_score) ==
    LET sahm_ok == sahm_score # None /\ RLe(R(SahmThreshold), sahm_score)
        coin_ok == coin_score # None /\ RLe(R(CoinThreshold), coin_score)
    IN  IF curve_score # None /\ ~sahm_ok /\ ~coin_ok
        THEN RMin(curve_score, R(CurveCap))
        ELSE curve_score

\* the loop over norm that adds up the score
RECURSIVE RecBlend(_, _)
RecBlend(norm, curve_effective) ==
    IF norm = <<>> THEN R(0)
    ELSE LET c == Last(norm)
             sofar == RecBlend(SubSeq(norm, 1, Len(norm) - 1), curve_effective)
         IN  IF c.name = "curve" /\ curve_effective # None
             THEN RAdd(sofar, RMul(c.w, curve_effective))
             ELSE RAdd(sofar, RMul(c.w, c.val))

RecTooltipText ==
    "Composite recession risk dial (0-100). Curve is capped when labour/coincident confirmation is low."

build_recession_dial(resp) ==
    LET curve == RecFetch(resp.curve, CurveYears)
        curve_score ==
            IF curve.raised THEN None
            ELSE percentile_score(Last(curve.series)[2], Values(curve.series), TRUE)
        w1 == IF curve.raised
              THEN <<Warning("Curve(T10Y3M) unavailable", curve.err)>> ELSE <<>>
        sahm == RecFetch(resp.sahm, ConfirmYears)
        sahm_score ==
            IF sahm.raised THEN None
            ELSE clamp(RMul(FloatOf(Last(sahm.series)[2]), R(100)), R(0), R(100))
        w2 == IF sahm.raised
              THEN <<Warning("Sahm(SAHMREALTIME) unavailable", sahm.err)>> ELSE <<>>
        coin == RecFetch(resp.coin, ConfirmYears)
        coin_score ==
            IF coin.raised THEN None
            ELSE clamp(FloatOf(Last(coin.series)[2]), R(0), R(100))
        w3 == IF coin.raised
              THEN <<Warning("Coincident(RECPROUSM156N) unavailable", coin.err)>> ELSE <<>>
        warnings == w1 \o w2 \o w3
        components == << Component("curve", curve_score, Frac(50, 100)),
                         Component("sahm", sahm_score, Frac(30, 100)),
                         Component("coin", coin_score, Frac(20, 100)) >>
        available == Available(components)
        locals == [curve_score |-> curve_score, sahm_score |-> sahm_score,
                   coin_score |-> coin_score, warnings |-> warnings]
    IN  IF available = <<>>
        THEN locals @@
             [called |-> TRUE, score |-> None, blend |-> None,
              tooltip |-> Tooltip("Recession dial unavailable (all components missing).", <<>>)]
        ELSE LET wsum == WeightSum(available)
                 norm == Renormalise(available, wsum)
                 curve_effective == CurveEffective(curve_score, sahm_score, coin_score)
                 score == RecBlend(norm, curve_effective)
             IN  locals @@
                 [called |-> TRUE, score |-> clamp(score, R(0), R(100)), blend |-> score,
                  tooltip |-> Tooltip(RecTooltipText, warnings)]

----------------------------------------------------------------------------
(* build_credit_stress_dial.  resp holds the responses of its fred_series  *)
(* calls in call order: [hy, bbb, hy_diff, ig, cpff, stlfsi, nfci, hy_kick] *)

\* get_pct_score: [score, warnings] where warnings is what the call appended
get_pct_score(resp, series_id, years) ==
    LET s == FetchTail(resp, years)
    IN  IF s.raised
        THEN [score |-> None, warnings |-> <<Warning(series_id, s.err)>>]
        ELSE IF s.series = <<>> THEN [score |-> None, warnings |-> <<>>]
        ELSE [score |-> percentile_score(Last(s.series)[2], Values(s.series), FALSE),
              warnings |-> <<>>]

\* the HY-IG differential block
HyIgScore(resp_hy, resp_ig) ==
    LET hy_s == FetchTail(resp_hy, CreditYears)
        ig_s == FetchTail(resp_ig, CreditYears)
    IN  IF hy_s.raised
        THEN [score |-> None, warnings |-> <<Warning("HY-IG diff unavailable", hy_s.err)>>]
        ELSE IF ig_s.raised
        THEN [score |-> None, warnings |-> <<Warning("HY-IG diff unavailable", ig_s.err)>>]
        ELSE LET joined == align_by_date(hy_s.series, ig_s.series)
                 diffs == [i \in 1..Len(joined) |-> joined[i][2] - joined[i][3]]
             IN  IF diffs = <<>> THEN [score |-> None, warnings |-> <<>>]
                 ELSE [score |-> percentile_score(Last(diffs), diffs, FALSE),
                       warnings |-> <<>>]

\* sum((w / wsum) * float(v) for _, v, w in available)
RECURSIVE CsBlend(_, _)
CsBlend(available, wsum) ==
    IF available = <<>> THEN R(0)
    ELSE LET c == Last(available)
         IN  RAdd(CsBlend(SubSeq(available, 1, Len(available) - 1), wsum),
                  RMul(RMul(c.w, <<wsum[2], wsum[1]>>), c.val))

\* chg = now - prev with now = hy_s[-1][1], prev = hy_s[-31][1]
KickerChange(hy_s) == hy_s[Len(hy_s)][2] - hy_s[Len(hy_s) - KickerOffset + 1][2]

\* chgs: hy_s[i][1] - hy_s[i - 31][1] for i in range(31, len(hy_s)), i 0-based
KickerHistory(hy_s) ==
    [k \in 1..(Len(hy_s) - KickerOffset) |->
        hy_s[k + KickerOffset][2] - hy_s[k][2]]

\* the momentum kicker block: [pct, bonus, n, hy, chg, chgs, warnings], n = len(hy_s),
\* hy the values of hy_s
Kicker(resp) ==
    LET hy_s == FetchTail(resp, CreditYears)
    IN  IF hy_s.raised
        THEN [pct |-> None, bonus |-> R(0), n |-> 0, hy |-> <<>>, chg |-> None,
              chgs |-> <<>>,
              warnings |-> <<Warning("HY momentum kicker unavailable", hy_s.err)>>]
        ELSE IF Len(hy_s.series) > KickerMinLen
        THEN LET pct == percentile_score(KickerChange(hy_s.series),
                                         KickerHistory(hy_s.series), FALSE)
             IN  [pct |-> pct,
                  bonus |-> IF RLe(R(KickerRank), pct) THEN R(KickerBonus) ELSE R(0),
                  n |-> Len(hy_s.series), hy |-> Values(hy_s.series),
                  chg |-> KickerChange(hy_s.series), chgs |-> KickerHistory(hy_s.series),
                  warnings |-> <<>>]
        ELSE [pct |-> None, bonus |-> R(0), n |-> Len(hy_s.series),
              hy |-> Values(hy_s.series), chg |-> None, chgs |-> <<>>, warnings |-> <<>>]

\* the clamp taken before the bonus is added
CsFinalClampFirst(blend, bonus) == RAdd(clamp(blend, R(0), R(100)), bonus)

\* score after the kicker block and the final clamp
CsFinal(blend, bonus) == clamp(RAdd(blend, bonus), R(0), R(100))

CsTooltipText ==
    "Composite credit stress dial (0-100, percentile-based). Adds a small kicker when HY spreads widen rapidly."

build_credit_stress_dial(resp) ==
    LET hy == get_pct_score(resp.hy, "BAMLH0A0HYM2 unavailable", CreditYears)
        bbb == get_pct_score(resp.bbb, "BAMLC0A4CBBB unavailable", CreditYears)
        hy_ig == HyIgScore(resp.hy_diff, resp.ig)
        cpff == get_pct_score(resp.cpff, "CPFF unavailable", CreditYears)
        stlfsi == get_pct_score(resp.stlfsi, "STLFSI4 unavailable", CreditYears)
        nfci == get_pct_score(resp.nfci, "NFCIRISK unavailable", CreditYears)
        warnings == hy.warnings \o bbb.warnings \o hy_ig.warnings \o cpff.warnings
                    \o stlfsi.warnings \o nfci.warnings
        weights == << Component("HY OAS", hy.score, Frac(30, 100)),
                      Component("BBB OAS", bbb.score, Frac(10, 100)),
                      Component("HY-IG", hy_ig.score, Frac(10, 100)),
                      Component("CPFF", cpff.score, Frac(20, 100)),
                      Component("STLFSI4", stlfsi.score, Frac(15, 100)),
                      Component("NFCIRISK", nfci.score, Frac(15, 100)) >>
        available == Available(weights)
    IN  IF available = <<>>
        THEN [called |-> TRUE, weights |-> weights, score |-> None, blend |-> None,
              kick |-> None, kick_n |-> 0, kick_hy |-> <<>>, kick_chg |-> None,
              kick_chgs |-> <<>>, warnings |-> warnings,
              tooltip |-> Tooltip("Credit stress dial unavailable (all components missing).", <<>>)]
        ELSE LET wsum == WeightSum(available)
                 score == CsBlend(available, wsum)
                 k == Kicker(resp.hy_kick)
             IN  [called |-> TRUE, weights |-> weights,
                  score |-> CsFinal(score, k.bonus), blend |-> score,
                  kick |-> k.pct, kick_n |-> k.n, kick_hy |-> k.hy, kick_chg |-> k.chg,
                  kick_chgs |-> k.chgs, warnings |-> warnings \o k.warnings,
                  tooltip |-> Tooltip(CsTooltipText, warnings \o k.warnings)]

----------------------------------------------------------------------------
(* The output file and the previous payload.  A JSON value is a record     *)
(* tagged by t: "null", "bool", "num", "str", "arr" (items) or "obj"       *)
(* (fields, a function from keys to JSON values).                          *)

JNull == [t |-> "null"]
JBool(b) == [t |-> "bool", bool |-> b]
JNum(x) == [t |-> "num", num |-> x]
JStr(x) == [t |-> "str", str |-> x]
JArr(items) == [t |-> "arr", items |-> items]
JObj(fields) == [t |-> "obj", fields |-> fields]
EmptyDict == JObj(<<>>)

FileAbsent == [kind |-> "absent", doc |-> JNull]
FileGarbage == [kind |-> "garbage", doc |-> JNull]
FileJson(doc) == [kind |-> "json", doc |-> doc]

\* keys whose values json.dumps writes as numbers
NumberKeys == {"value", "min", "max", "pct"}

\* json.dumps of one card
DumpCard(card) ==
    JObj([k \in DOMAIN card |->
            IF k = "value" THEN JNum(card[k])
            ELSE IF k \in NumberKeys THEN JNum(R(card[k]))
            ELSE JStr(card[k])])

\* json.dumps(payload)
Dumps(payload) ==
    JObj([asOf |-> JStr(payload.asOf),
          cards |-> JArr([i \in 1..Len(payload.cards) |-> DumpCard(payload.cards[i])])])

load_previous_payload(file) ==
    IF file.kind = "json" THEN file.doc ELSE EmptyDict

\* float(v) for a JSON value v that is not null: [raised, val]
FloatOfJson(v) ==
    IF v.t = "num" THEN [raised |-> FALSE, val |-> v.num]
    ELSE IF v.t = "bool" THEN [raised |-> FALSE, val |-> IF v.bool THEN R(1) ELSE R(0)]
    ELSE IF v.t = "str" /\ v.str = "44.0" THEN [raised |-> FALSE, val |-> R(44)]
    ELSE [raised |-> TRUE, val |-> None]

\* the loop of prev_card_value over the cards: [raised, val]
RECURSIVE PrevLoop(_, _)
PrevLoop(items, card_id) ==
    IF items = <<>> THEN [raised |-> FALSE, val |-> None]
    ELSE LET c == Head(items)
         IN  IF c.t # "obj" THEN [raised |-> TRUE, val |-> None]
             ELSE IF /\ "id" \in DOMAIN c.fields
                     /\ c.fields["id"].t = "str"
                     /\ c.fields["id"].str = card_id
             THEN IF "value" \notin DOMAIN c.fields \/ c.fields["value"].t = "null"
                  THEN [raised |-> FALSE, val |-> None]
                  ELSE FloatOfJson(c.fields["value"])
             ELSE PrevLoop(Tail(items), card_id)

\* the body of the try block of prev_card_value: [raised, val]
PrevBody(payload, card_id) ==
    IF payload.t # "obj" THEN [raised |-> TRUE, val |-> None]
    ELSE IF "cards" \notin DOMAIN payload.fields THEN [raised |-> FALSE, val |-> None]
    ELSE LET cs_ == payload.fields["cards"]
         IN  IF cs_.t = "arr" THEN PrevLoop(cs_.items, card_id)
             ELSE IF cs_.t \in {"str", "obj"} THEN
                  \* iterating a str or a dict yields strings, and str has no .get
                  [raised |-> IF cs_.t = "str" THEN cs_.str # "" ELSE DOMAIN cs_.fields # {},
                   val |-> None]
             ELSE [raised |-> TRUE, val |-> None]

prev_card_value(payload, card_id) ==
    LET b == PrevBody(payload, card_id)
    IN  IF b.raised THEN None ELSE b.val

----------------------------------------------------------------------------
(* Cards *)

\* a smoothing weight of a tenth
AlphaTenth == Frac(10, 100)

Alpha == Frac(20, 100)
SpyLookback == 21
KreLookback == 63

Labels(lo, mid, hi) == [minLabel |-> lo, midLabel |-> mid, maxLabel |-> hi]

GaugeCard(id, title, status, value, unit, min, max, labels, tooltip, as_of) ==
    [id |-> id, type |-> "gauge", title |-> title, status |-> status, value |-> value,
     unit |-> unit, min |-> min, max |-> max, tooltip |-> tooltip, updatedAt |-> as_of]
    @@ labels

DelayedCard(id, title, valueText, labels, tooltip, as_of) ==
    [id |-> id, type |-> "gauge", title |-> title, status |-> "DELAYED",
     valueText |-> valueText, pct |-> 50, tooltip |-> tooltip, updatedAt |-> as_of]
    @@ labels

\* fred_latest without its try/except: the HTTP error leaves the function
LatestCallUnguarded(resp) == [raised |-> resp.raised, val |-> fred_latest(resp)]

\* fred_latest with its own try/except: [raised, val], val None or <<date, value>>
LatestCall(resp) == [raised |-> FALSE, val |-> fred_latest(resp)]

VixCard(vix, as_of) ==
    IF vix # None
    THEN GaugeCard("vix", "VOLATILITY (VIX)",
                   status_from_band(FloatOf(vix[2]), R(18), R(28), TRUE),
                   PyRound1(FloatOf(vix[2])), "", 10, 40, Labels("10", "20", "40"),
                   Tooltip("CBOE VIX close from FRED (VIXCLS). Higher = riskier.", <<>>), as_of)
    ELSE DelayedCard("vix", "VOLATILITY (VIX)", "FRED key?", Labels("10", "20", "40"),
                     Tooltip("Could not fetch FRED series VIXCLS. Check env var FRED_API_KEY.", <<>>),
                     as_of)

HyCard(hy, as_of) ==
    IF hy # None
    THEN LET hy_bp == RMul(FloatOf(hy[2]), R(100))
         IN  GaugeCard("hy_oas", "HIGH YIELD SPREAD (OAS)",
                       status_from_band(hy_bp, R(350), R(500), TRUE),
                       PyRound0(hy_bp), " bp", 250, 800, Labels("250", "500", "800"),
                       Tooltip("HY OAS from FRED (ICE BofA).", <<>>), as_of)
    ELSE DelayedCard("hy_oas", "HIGH YIELD SPREAD (OAS)", "FRED key?",
                     Labels("250", "500", "800"),
                     Tooltip("Could not fetch FRED series BAMLH0A0HYM2. Set env var FRED_API_KEY.", <<>>),
                     as_of)

IgCard(ig, as_of) ==
    IF ig # None
    THEN LET ig_bp == RMul(FloatOf(ig[2]), R(100))
         IN  GaugeCard("ig_oas", "INVESTMENT GRADE SPREAD (OAS)",
                       status_from_band(ig_bp, R(130), R(200), TRUE),
                       PyRound0(ig_bp), " bp", 80, 300, Labels("80", "180", "300"),
                       Tooltip("IG OAS from FRED (ICE BofA).", <<>>), as_of)
    ELSE DelayedCard("ig_oas", "INVESTMENT GRADE SPREAD (OAS)", "FRED key?",
                     Labels("80", "180", "300"),
                     Tooltip("Could not fetch FRED series BAMLC0A0CM. Set env var FRED_API_KEY.", <<>>),
                     as_of)

CurveCard(curve, as_of) ==
    IF curve # None
    THEN LET c_bp == RMul(FloatOf(curve[2]), R(100))
         IN  GaugeCard("curve_10y2y", "YIELD CURVE (10Y-2Y)",
                       status_from_band(c_bp, R(0), R(-50), FALSE),
                       PyRound0(c_bp), " bp", -200, 200, Labels("-200", "0", "200"),
                       Tooltip("10Y-2Y spread from FRED.", <<>>), as_of)
    ELSE DelayedCard("curve_10y2y", "YIELD CURVE (10Y-2Y)", "FRED key?",
                     Labels("-200", "0", "200"),
                     Tooltip("Could not fetch FRED series T10Y2Y. Set env var FRED_API_KEY.", <<>>),
                     as_of)

\* the status ladder of the two drawdown dials
DrawdownStatus(dd, warn, bad) ==
    IF RLe(dd, R(bad)) THEN "DELAYED"
    ELSE IF RLe(dd, R(warn)) THEN "WARN"
    ELSE "GOOD"

\* one drawdown dial: the try block and its except branch
DrawdownCard(resp, id, title, what, lookback, warn, bad, min, labels, as_of) ==
    LET bars == stooq_daily_closes(resp)
        dd == drawdown_pct(bars.series, lookback)
    IN  IF bars.raised
        THEN DelayedCard(id, title, "-", labels, Tooltip(what, <<bars.err>>), as_of)
        ELSE IF dd = None
        THEN DelayedCard(id, title, "-", labels, Tooltip(what, <<"not enough data">>), as_of)
        ELSE GaugeCard(id, title, DrawdownStatus(dd, warn, bad), PyRound1(dd), "%",
                       min, 0, labels, Tooltip(title, <<>>), as_of)

SpyCard(resp, as_of) ==
    DrawdownCard(resp, "spy_dd_1m", "EQUITY DRAWDOWN (SPY, 1M)", "SPY fetch failed",
                 SpyLookback, -6, -10, -20, Labels("-20%", "-10%", "0%"), as_of)

KreCard(resp, as_of) ==
    DrawdownCard(resp, "kre_dd_3m", "REGIONAL BANKS DRAWDOWN (KRE, 3M)", "KRE fetch failed",
                 KreLookback, -8, -15, -30, Labels("-30%", "-15%", "0%"), as_of)

\* "GOOD" if sm < good else ("WARN" if sm < warn else "DELAYED")
CompositeStatus(sm, good, warn) ==
    IF RLt(sm, R(good)) THEN "GOOD"
    ELSE IF RLt(sm, R(warn)) THEN "WARN"
    ELSE "DELAYED"

\* an except branch that still publishes a number
CompositeFailedWithValue(id, title, what, labels, as_of) ==
    GaugeCard(id, title, "DELAYED", R(0), "", 0, 100, labels,
              Tooltip(what, <<"missing components">>), as_of)

\* the except branch of a composite dial
CompositeFailed(id, title, what, labels, as_of) ==
    DelayedCard(id, title, "-", labels, Tooltip(what, <<"missing components">>), as_of)

RecessionCard(built, payload, as_of) ==
    IF built.score = None
    THEN CompositeFailed("recession_risk", "RECESSION RISK", "Recession dial build failed",
                         Labels("Low", "Elevated", "High"), as_of)
    ELSE LET prev == prev_card_value(payload, "recession_risk")
             rec_sm == smooth_with_previous(built.score, prev, Alpha)
         IN  GaugeCard("recession_risk", "RECESSION RISK", CompositeStatus(rec_sm, 35, 60),
                       PyRound0(rec_sm), "", 0, 100, Labels("Low", "Elevated", "High"),
                       built.tooltip, as_of)

CreditStressCard(built, payload, as_of) ==
    IF built.score = None
    THEN CompositeFailed("credit_stress", "CREDIT STRESS", "Credit stress dial build failed",
                         Labels("Easy", "Tightening", "Crisis"), as_of)
    ELSE LET prev == prev_card_value(payload, "credit_stress")
             cs_sm == smooth_with_previous(built.score, prev, Alpha)
         IN  GaugeCard("credit_stress", "CREDIT STRESS", CompositeStatus(cs_sm, 40, 65),
                       PyRound0(cs_sm), "", 0, 100, Labels("Easy", "Tightening", "Crisis"),
                       built.tooltip, as_of)

----------------------------------------------------------------------------
(* Provider responses the model draws from *)

Down(e) == [raised |-> TRUE, err |-> e, rows |-> <<>>]
Rows(rs) == [raised |-> FALSE, err |-> "", rows |-> rs]
Row(d, v) == [date |-> d, value |-> v, missing |-> FALSE]
Dot(d) == [date |-> d, value |-> 0, missing |-> TRUE]

\* the i-th day of 2024, for i up to 91
DateOf(i) ==
    IF i <= 31 THEN 20240100 + i
    ELSE IF i <= 60 THEN 20240200 + (i - 31)
    ELSE 20240300 + (i - 60)

\* a response carrying the values vals on consecutive days from 1 January 2024
Ser(vals) == Rows([i \in 1..Len(vals) |-> Row(DateOf(i), vals[i])])

\* the same values on the days from..., so that the last day is 29 February 2024
SerLeap(vals) == Rows([i \in 1..Len(vals) |-> Row(DateOf(60 - Len(vals) + i), vals[i])])

\* a first observation from 2005, outside a 15-year window and inside a 20-year one
SerOld(old, vals) == Rows(<<Row(20050103, old)>> \o Ser(vals).rows)

\* what one response amounts to
Outcome(resp) ==
    IF resp.raised THEN "raise"
    ELSE IF Usable(resp.rows) = <<>> THEN "nodata"
    ELSE "data"

\* all sequences over vals of length 1..n
RECURSIVE SeqsUpTo(_, _)
SeqsUpTo(vals, n) ==
    IF n = 0 THEN {}
    ELSE LET shorter == SeqsUpTo(vals, n - 1)
         IN  {<<v>> : v \in vals} \cup shorter
             \cup {Append(s, v) : s \in {t \in shorter : Len(t) = n - 1}, v \in vals}

\* fred_latest: the newest observation first, a "." before the first usable one
LatestFeed(v) ==
    { Down("URLError"), Rows(<<>>), Rows(<<Dot(DateOf(2))>>),
      Rows(<<Dot(DateOf(2)), Row(DateOf(1), v)>>) }
LatestUp(v) == { Rows(<<Row(DateOf(1), v)>>) }

\* n daily closes of 100.00 with a last close of lastc
Bars(n, lastc) == Rows([i \in 1..n |-> Row(DateOf(i), IF i = n THEN lastc ELSE 10000)])
StooqFeed ==
    { Down("URLError"), Rows(<<>>), Bars(SpyLookback - 1, 9300), Bars(KreLookback, 9300) }
StooqUp == { Bars(KreLookback, 9300) }

\* a long HY series: flat, with a last value of lastv
LongFlat(n, lastv) ==
    Rows([i \in 1..n |-> Row(DateOf(i), IF i = n THEN lastv ELSE 400)])
\* a long HY series with two wide observations a month before the end
LongSpike(n, lastv) ==
    Rows([i \in 1..n |->
            Row(DateOf(i), IF i = n THEN lastv
                           ELSE IF i \in {KickerOffset + 1, KickerOffset + 2} THEN 500
                           ELSE 400)])
\* a long HY series that steps up a month before the end
LongStep(n, lastv) ==
    Rows([i \in 1..n |->
            Row(DateOf(i), IF i = n THEN lastv
                           ELSE IF i <= n - KickerOffset THEN 300
                           ELSE 400)])
LongLen == KickerMinLen + LongExtra

----------------------------------------------------------------------------
(* The responses of one build_recession_dial call *)

RecResp(curve, sahm, coin) == [curve |-> curve, sahm |-> sahm, coin |-> coin]

\* a day's worth of scenarios for the runs of the whole program
RecDaily ==
    { RecResp(Down("URLError"), Down("URLError"), Down("URLError")),
      RecResp(Rows(<<>>), Rows(<<>>), Rows(<<>>)),
      RecResp(Ser(<<3, 2, 1>>), Down("URLError"), Rows(<<>>)),
      RecResp(Ser(<<5, 4, 3, 2, 1>>), Ser(<<10>>), Ser(<<500>>)),
      RecResp(Down("URLError"), Ser(<<60>>), Down("URLError")),
      RecResp(Down("URLError"), Ser(<<150>>), Ser(<<10000>>)) }

\* every combination of these, for the builder on its own
CurveWide ==
    { Down("URLError"), Rows(<<>>), SerLeap(<<1, 2>>), SerOld(0, <<3, 2, 1>>),
      Ser(<<5, 4, 3, 2, 1>>), Ser(<<3, 2, 1>>) }
    \cup { Ser(s) : s \in SeqsUpTo({1, 2}, SeriesLen) }
SahmWide ==
    { Down("URLError"), Rows(<<>>), Ser(<<10>>), Ser(<<19>>), Ser(<<20>>), Ser(<<150>>) }
CoinWide ==
    { Down("URLError"), Rows(<<>>), Ser(<<500>>), Ser(<<1499>>), Ser(<<1500>>), Ser(<<10000>>) }
RecWide == [curve : CurveWide, sahm : SahmWide, coin : CoinWide]

----------------------------------------------------------------------------
(* The responses of one build_credit_stress_dial call *)

CsResp(hy, bbb, hy_diff, ig, cpff, stlfsi, nfci, hy_kick) ==
    [hy |-> hy, bbb |-> bbb, hy_diff |-> hy_diff, ig |-> ig, cpff |-> cpff,
     stlfsi |-> stlfsi, nfci |-> nfci, hy_kick |-> hy_kick]

AllSame(r) == CsResp(r, r, r, r, r, r, r, r)

CsDaily ==
    { AllSame(Down("URLError")),
      AllSame(Rows(<<>>)),
      CsResp(LongFlat(LongLen, 450), Ser(<<1, 2>>), LongFlat(LongLen, 450), Ser(<<1, 1>>),
             Ser(<<1, 2>>), Ser(<<1, 2>>), Ser(<<1, 2>>), LongFlat(LongLen, 450)),
      CsResp(Ser(<<1, 3, 4, 5, 2>>), Down("URLError"), Down("URLError"), Down("URLError"),
             Rows(<<>>), Rows(<<>>), Rows(<<>>), Down("URLError")),
      CsResp(Ser(<<1, 2, 4, 3>>), Rows(<<>>), Rows(<<>>), Rows(<<>>),
             Ser(<<2, 1>>), Down("URLError"), Down("URLError"), Ser(<<1, 2, 4, 3>>)) }

HyWide ==
    { Down("URLError"), Rows(<<>>), SerLeap(<<1, 2>>), Ser(<<1, 2>>), Ser(<<2, 1>>),
      LongFlat(LongLen, 450) }
BbbWide == { Down("URLError"), Rows(<<>>), Ser(<<1, 2>>), Ser(<<3, 1, 2>>) }
HyDiffWide == { Down("URLError"), Rows(<<>>), Ser(<<1, 2>>) }
\* the last IG series shares no date with an HY series
IgWide == { Down("URLError"), Rows(<<>>), Ser(<<1, 1>>), SerOld(1, <<>>) }
OtherWide == { Down("URLError"), Rows(<<>>), Ser(<<1, 2>>) }
KickWide ==
    { Down("URLError"), Rows(<<>>), LongFlat(KickerMinLen, 450), LongFlat(LongLen, 450),
      LongSpike(LongLen, 410), LongStep(LongLen, 450) }
CsWide ==
    [hy : HyWide, bbb : BbbWide, hy_diff : HyDiffWide, ig : IgWide, cpff : OtherWide,
     stlfsi : OtherWide, nfci : OtherWide, hy_kick : KickWide]

----------------------------------------------------------------------------
(* The process *)

NotCalled == [called |-> FALSE]
NoCall == [fn |-> "none"]
NoLast == [dial |-> "none", calls |-> <<>>, prev |-> None, sm |-> None]

Init ==
    /\ pc = "idle"
    /\ run = 0
    /\ outfile = FileAbsent
    /\ prev_payload = EmptyDict
    /\ cards = <<>>
    /\ last = NoLast
    /\ rec = NotCalled
    /\ cs = NotCalled
    /\ call = NoCall

\* main() starts and make_cards reads the previous payload; as_of is the run's number
Start ==
    /\ pc = "idle"
    /\ run < MaxRuns
    /\ run' = run + 1
    /\ prev_payload' = load_previous_payload(outfile)
    /\ cards' = <<>>
    /\ pc' = "vix"
    /\ UNCHANGED <<outfile, last, rec, cs, call>>

\* a dial built from one fred_latest call, which is outside any try block
LatestCard(id, val, as_of) ==
    CASE id = "vix" -> VixCard(val, as_of)
      [] id = "hy_oas" -> HyCard(val, as_of)
      [] id = "ig_oas" -> IgCard(val, as_of)
      [] id = "curve_10y2y" -> CurveCard(val, as_of)

LatestDial(here, next, feed) ==
    /\ pc = here
    /\ \E resp \in feed : \E r \in {LatestCall(resp)} :
            IF r.raised
            THEN /\ pc' = "crashed"
                 /\ UNCHANGED <<cards, last>>
            ELSE /\ cards' = Append(cards, LatestCard(here, r.val, run))
                 /\ last' = [dial |-> here, calls |-> <<Outcome(resp)>>,
                             prev |-> None, sm |-> None]
                 /\ pc' = next
    /\ UNCHANGED <<run, outfile, prev_payload, rec, cs, call>>

DialVix(feed) == LatestDial("vix", "hy_oas", feed)
DialHy(feed) == LatestDial("hy_oas", "ig_oas", feed)
DialIg(feed) == LatestDial("ig_oas", "curve_10y2y", feed)
DialCurve(feed) == LatestDial("curve_10y2y", "spy_dd_1m", feed)

\* a drawdown dial: the Stooq call is inside the dial's try block
StooqCard(id, resp, as_of) ==
    CASE id = "spy_dd_1m" -> SpyCard(resp, as_of)
      [] id = "kre_dd_3m" -> KreCard(resp, as_of)

StooqDial(here, next, feed) ==
    /\ pc = here
    /\ \E resp \in feed :
        /\ cards' = Append(cards, StooqCard(here, resp, run))
        /\ last' = [dial |-> here, calls |-> <<Outcome(resp)>>, prev |-> None, sm |-> None]
    /\ pc' = next
    /\ UNCHANGED <<run, outfile, prev_payload, rec, cs, call>>

DialSpy(feed) == StooqDial("spy_dd_1m", "kre_dd_3m", feed)
DialKre(feed) == StooqDial("kre_dd_3m", "recession_risk", feed)

RecCalls(resp) == <<Outcome(resp.curve), Outcome(resp.sahm), Outcome(resp.coin)>>
CsCalls(resp) ==
    <<Outcome(resp.hy), Outcome(resp.bbb), Outcome(resp.hy_diff), Outcome(resp.ig),
      Outcome(resp.cpff), Outcome(resp.stlfsi), Outcome(resp.nfci), Outcome(resp.hy_kick)>>

\* the smoothing a composite dial's try block does with the builder's score
Smoothing(built, payload, id) ==
    IF built.score = None THEN [prev |-> None, sm |-> None]
    ELSE LET prev == prev_card_value(payload, id)
         IN  [prev |-> prev, sm |-> smooth_with_previous(built.score, prev, Alpha)]

DialRecession(feed) ==
    /\ pc = "recession_risk"
    /\ \E resp \in feed : \E built \in {build_recession_dial(resp)} :
            /\ rec' = built
            /\ cards' = Append(cards, RecessionCard(built, prev_payload, run))
            /\ last' = [dial |-> "recession_risk", calls |-> RecCalls(resp)]
                       @@ Smoothing(built, prev_payload, "recession_risk")
    /\ pc' = "credit_stress"
    /\ UNCHANGED <<run, outfile, prev_payload, cs, call>>

DialCreditStress(feed) ==
    /\ pc = "credit_stress"
    /\ \E resp \in feed : \E built \in {build_credit_stress_dial(resp)} :
            /\ cs' = built
            /\ cards' = Append(cards, CreditStressCard(built, prev_payload, run))
            /\ last' = [dial |-> "credit_stress", calls |-> CsCalls(resp)]
                       @@ Smoothing(built, prev_payload, "credit_stress")
    /\ pc' = "returned"
    /\ UNCHANGED <<run, outfile, prev_payload, rec, call>>

\* make_cards has returned: main() writes the payload and the process ends
Write ==
    /\ pc = "returned"
    /\ outfile' = FileJson(Dumps([asOf |-> run, cards |-> cards]))
    /\ pc' = "idle"
    /\ prev_payload' = EmptyDict
    /\ cards' = <<>>
    /\ last' = NoLast
    /\ rec' = NotCalled
    /\ cs' = NotCalled
    /\ UNCHANGED <<run, call>>

\* the program run day after day, the single-series dials always fed
Next ==
    \/ Start
    \/ DialVix(LatestUp(1850))
    \/ DialHy(LatestUp(345))
    \/ DialIg(LatestUp(130))
    \/ DialCurve(LatestUp(-25))
    \/ DialSpy(StooqUp)
    \/ DialKre(StooqUp)
    \/ DialRecession(RecDaily)
    \/ DialCreditStress(CsDaily)
    \/ Write

Spec == Init /\ [][Next]_vars

----------------------------------------------------------------------------
(* One run of make_cards over any previous file, every provider call       *)
(* failing or not on its own                                               *)

CardDoc(id, value) == JObj([id |-> JStr(id), value |-> value])
PayloadDoc(items) == JObj([asOf |-> JStr(0), cards |-> JArr(items)])

AnyFiles ==
    { FileAbsent, FileGarbage,
      FileJson(JArr(<<>>)),
      FileJson(EmptyDict),
      FileJson(JObj([cards |-> JStr("x")])),
      FileJson(PayloadDoc(<<JNum(R(1)), CardDoc("recession_risk", JNum(R(40)))>>)),
      FileJson(PayloadDoc(<<CardDoc("recession_risk", JNum(R(40))),
                            CardDoc("credit_stress", JStr("44.0"))>>)),
      FileJson(PayloadDoc(<<CardDoc("recession_risk", JStr("n/a")),
                            CardDoc("credit_stress", JNull)>>)),
      FileJson(PayloadDoc(<<JObj([id |-> JStr("recession_risk")]),
                            CardDoc("credit_stress", JBool(TRUE)),
                            CardDoc("credit_stress", JNum(R(90)))>>)) }

InitOnce ==
    /\ pc = "idle"
    /\ run = 0
    /\ outfile \in AnyFiles
    /\ prev_payload = EmptyDict
    /\ cards = <<>>
    /\ last = NoLast
    /\ rec = NotCalled
    /\ cs = NotCalled
    /\ call = NoCall

NextOnce ==
    \/ Start
    \/ DialVix(LatestFeed(1850))
    \/ DialHy(LatestFeed(345))
    \/ DialIg(LatestFeed(130))
    \/ DialCurve(LatestFeed(-25))
    \/ DialSpy(StooqFeed)
    \/ DialKre(StooqFeed)
    \/ DialRecession(RecDaily)
    \/ DialCreditStress(CsDaily)

SpecOnce == InitOnce /\ [][NextOnce]_vars

----------------------------------------------------------------------------
(* The composite builders called on their own, over every combination of   *)
(* responses                                                               *)

CallRecession ==
    /\ pc = "idle"
    /\ \E resp \in RecWide :
        /\ rec' = build_recession_dial(resp)
        /\ last' = [dial |-> "recession_risk", calls |-> RecCalls(resp),
                    prev |-> None, sm |-> None]
    /\ pc' = "called"
    /\ UNCHANGED <<run, outfile, prev_payload, cards, cs, call>>

CallCreditStress ==
    /\ pc = "idle"
    /\ \E resp \in CsWide :
        /\ cs' = build_credit_stress_dial(resp)
        /\ last' = [dial |-> "credit_stress", calls |-> CsCalls(resp),
                    prev |-> None, sm |-> None]
    /\ pc' = "called"
    /\ UNCHANGED <<run, outfile, prev_payload, cards, rec, call>>

NextDial == CallRecession \/ CallCreditStress

SpecDial == Init /\ [][NextDial]_vars

----------------------------------------------------------------------------
(* percentile_score called on its own *)

Histories == {<<>>} \cup SeqsUpTo(0..MaxVal, MaxHist)

CallPercentile ==
    /\ pc = "idle"
    /\ \E current \in -1..(MaxVal + 1), history \in Histories, invert \in BOOLEAN :
        call' = [fn |-> "percentile_score", current |-> current, history |-> history,
                 invert |-> invert, out |-> percentile_score(current, history, invert)]
    /\ pc' = "called"
    /\ UNCHANGED <<run, outfile, prev_payload, cards, last, rec, cs>>

NextFn == CallPercentile

SpecFn == Init /\ [][NextFn]_vars

----------------------------------------------------------------------------
(* tail_since on its own, over series ascending by date *)

\* last days of February and first days of March, in leap and other years
TailDates == {20090228, 20090301, 20200229, 20230228, 20240229, 20240301}
TailYears == {0, 1, 4, 15, 20}

\* the dates of D in ascending order, each with an observation value
AscendingSeries(D) ==
    [k \in 1..Cardinality(D) |->
        LET d == CHOOSE e \in D : Cardinality({f \in D : f < e}) = k - 1
        IN  <<d, k>>]

TailSeries == {AscendingSeries(D) : D \in {E \in SUBSET TailDates : Cardinality(E) <= MaxTail}}

CallTailSince ==
    /\ pc = "idle"
    /\ \E series \in TailSeries, years \in TailYears :
        call' = [fn |-> "tail_since", series |-> series, years |-> years,
                 out |-> tail_since(series, years)]
    /\ pc' = "called"
    /\ UNCHANGED <<run, outfile, prev_payload, cards, last, rec, cs>>

NextTail == CallTailSince

SpecTail == Init /\ [][NextTail]_vars

----------------------------------------------------------------------------
(* The program run day after day with the composite builders returning the *)
(* same scores every day.  call holds the responses of the two builders;   *)
(* the file the first run finds is one an earlier run wrote.               *)

\* the file main() writes after a run that published p and q for the composites
WrittenFile(p, q) ==
    FileJson(Dumps([asOf |-> 0,
        cards |-> << LatestCard("vix", <<DateOf(1), 1850>>, 0),
                     LatestCard("hy_oas", <<DateOf(1), 345>>, 0),
                     LatestCard("ig_oas", <<DateOf(1), 130>>, 0),
                     LatestCard("curve_10y2y", <<DateOf(1), -25>>, 0),
                     StooqCard("spy_dd_1m", Bars(KreLookback, 9300), 0),
                     StooqCard("kre_dd_3m", Bars(KreLookback, 9300), 0),
                     RecessionCard([score |-> R(p), tooltip |-> Tooltip(RecTooltipText, <<>>)],
                                   EmptyDict, 0),
                     CreditStressCard([score |-> R(q), tooltip |-> Tooltip(CsTooltipText, <<>>)],
                                      EmptyDict, 0) >>]))

\* values published before the steady days begin
SteadyFrom == {0, 37, 100}

\* the daily scenarios in which the builder returns a score
SteadyRec ==
    RecDaily \ { RecResp(Down("URLError"), Down("URLError"), Down("URLError")),
                 RecResp(Rows(<<>>), Rows(<<>>), Rows(<<>>)) }
SteadyCs == CsDaily \ { AllSame(Down("URLError")), AllSame(Rows(<<>>)) }

InitSteady ==
    /\ pc = "idle"
    /\ run = 0
    /\ \E p \in SteadyFrom : outfile = WrittenFile(p, p)
    /\ prev_payload = EmptyDict
    /\ cards = <<>>
    /\ last = NoLast
    /\ rec = NotCalled
    /\ cs = NotCalled
    /\ \E r \in SteadyRec, c \in SteadyCs : call = [fn |-> "steady", rec |-> r, cs |-> c]

StartSteady ==
    /\ pc = "idle"
    /\ run < SteadyRuns
    /\ run' = run + 1
    /\ prev_payload' = load_previous_payload(outfile)
    /\ cards' = <<>>
    /\ pc' = "vix"
    /\ UNCHANGED <<outfile, last, rec, cs, call>>

NextSteady ==
    \/ StartSteady
    \/ DialVix(LatestUp(1850))
    \/ DialHy(LatestUp(345))
    \/ DialIg(LatestUp(130))
    \/ DialCurve(LatestUp(-25))
    \/ DialSpy(StooqUp)
    \/ DialKre(StooqUp)
    \/ DialRecession({call.rec})
    \/ DialCreditStress({call.cs})
    \/ Write

SpecSteady == InitSteady /\ [][NextSteady]_vars

----------------------------------------------------------------------------
(* Shapes the claims speak of *)

DialIds ==
    << "vix", "hy_oas", "ig_oas", "curve_10y2y", "spy_dd_1m", "kre_dd_3m",
       "recession_risk", "credit_stress" >>

CompositeIds == {"recession_risk", "credit_stress"}

\* a card in degraded form: DELAYED, a placeholder text, no numeric value
IsPlaceholder(c) ==
    /\ c.status = "DELAYED"
    /\ "valueText" \in DOMAIN c
    /\ "value" \notin DOMAIN c

\* a card carrying a number
IsNumeric(c) ==
    /\ c.status \in {"GOOD", "WARN", "DELAYED"}
    /\ "value" \in DOMAIN c
    /\ "valueText" \notin DOMAIN c

\* the calls of the dial built last obtained nothing the dial could be built from
NothingObtained ==
    /\ last.dial # "none"
    /\ IF last.dial = "credit_stress"
       THEN /\ \A i \in {1, 2, 5, 6, 7} : last.calls[i] # "data"
            /\ last.calls[3] # "data" \/ last.calls[4] # "data"
       ELSE \A i \in 1..Len(last.calls) : last.calls[i] # "data"

----------------------------------------------------------------------------
(* C1: whatever the providers answer and whatever the previous file holds, *)
(* make_cards does not raise; the cards it has built so far are those of   *)
(* the first dials in the fixed order, each either numeric or in degraded  *)
(* form; a dial whose calls obtained no data is in degraded form; and the  *)
(* list it returns has exactly the eight dials.                            *)
C1_EightCardsAlways ==
    /\ pc # "crashed"
    /\ Len(cards) <= 8
    /\ \A i \in 1..Len(cards) :
        /\ cards[i].id = DialIds[i]
        /\ IsPlaceholder(cards[i]) \/ IsNumeric(cards[i])
    /\ (last.dial # "none" /\ cards # <<>>) =>
        /\ Last(cards).id = last.dial
        /\ NothingObtained => IsPlaceholder(Last(cards))
    /\ pc = "returned" => Len(cards) = 8

\* C1 witness: make_cards has returned over an unparsable previous file, with
\* a raising call, a call without data and calls with data behind it
C1_Witness ==
    /\ pc = "returned"
    /\ outfile = FileGarbage
    /\ Len(cards) = 8
    /\ IsPlaceholder(cards[1]) /\ IsPlaceholder(cards[5]) /\ IsPlaceholder(cards[7])
    /\ IsNumeric(cards[2]) /\ IsNumeric(cards[6]) /\ IsNumeric(cards[8])

----------------------------------------------------------------------------
(* C10: when no component of a composite dial could be obtained its        *)
(* builder returns score None, and for a score of None make_cards emits    *)
(* for that dial a DELAYED card with a placeholder text, no numeric value and *)
(* a tooltip giving the reason; nothing is raised; and the step leaves the *)
(* cards built before it as they are, adds exactly this one card and goes  *)
(* on to what follows, as it does when the composite succeeds.             *)
CompositeScore(id) == IF id = "recession_risk" THEN rec.score ELSE cs.score

C10_DegradedShape ==
    /\ pc # "crashed"
    /\ (last.dial \in CompositeIds /\ NothingObtained) =>
        CompositeScore(last.dial) = None
    /\ (last.dial \in CompositeIds /\ CompositeScore(last.dial) = None) =>
        /\ IsPlaceholder(Last(cards))
        /\ Last(cards).id = last.dial
        /\ Last(cards).tooltip.warnings = <<"missing components">>

C10_OthersUntouched ==
    pc \in CompositeIds =>
        /\ Len(cards') = Len(cards) + 1
        /\ SubSeq(cards', 1, Len(cards)) = cards
        /\ pc' = IF pc = "recession_risk" THEN "credit_stress" ELSE "returned"

\* C10: the degraded shape in every state, the other cards untouched in
\* every composite step
C10_CompositeDegrades == []C10_DegradedShape /\ [][C10_OthersUntouched]_vars

\* C10 witness: the recession dial is degraded, the dials around it are not
C10_Witness ==
    /\ pc = "returned"
    /\ rec.score = None /\ cs.score # None
    /\ IsPlaceholder(cards[7])
    /\ IsNumeric(cards[6]) /\ IsNumeric(cards[8])

----------------------------------------------------------------------------
(* C8: percentile_score returns exactly 50 for an empty history; for a     *)
(* non-empty one it returns 100 * (number of elements <= current) / len,   *)
(* or 100 minus that when invert is set; the result lies in [0,100]; and   *)
(* exchanging any two elements of the history (hence any permutation of    *)
(* it) leaves the result as it is.                                         *)
CountAtMost(history, current) ==
    Cardinality({i \in 1..Len(history) : history[i] <= current})

Swapped(history, i, j) ==
    [k \in 1..Len(history) |->
        IF k = i THEN history[j] ELSE IF k = j THEN history[i] ELSE history[k]]

C8_PercentileRank ==
    call.fn = "percentile_score" =>
        LET n == Len(call.history)
            rank == Frac(100 * CountAtMost(call.history, call.current), n)
        IN  /\ n = 0 => call.out = R(50)
            /\ (n > 0 /\ ~call.invert) => call.out = rank
            /\ (n > 0 /\ call.invert) => call.out = RSub(R(100), rank)
            /\ RLe(R(0), call.out) /\ RLe(call.out, R(100))
            /\ \A i, j \in 1..n :
                percentile_score(call.current, Swapped(call.history, i, j), call.invert)
                    = call.out

\* C8 witness: an unsorted history with elements equal to current, inverted
C8_Witness ==
    /\ call.fn = "percentile_score"
    /\ call.history = <<2, 0, 1, 0>>
    /\ call.current = 0
    /\ call.invert
    /\ call.out = R(50)

----------------------------------------------------------------------------
(* C2: a composite builder returns score None exactly when every component *)
(* score is None; otherwise its blend (before the kicker, the recession    *)
(* curve at its capped value) is the sum over the available components of  *)
(* weight / (sum of the available weights) * score: the effective weights  *)
(* add up to 1 over the available components and a missing one adds        *)
(* nothing, neither to the sum nor to the weights.                         *)
Quot(a, b) == RMul(a, <<b[2], b[1]>>)

RECURSIVE RSum(_)
RSum(terms) ==
    IF terms = <<>> THEN R(0) ELSE RAdd(terms[1], RSum(Tail(terms)))

AvailableWeight(comps) ==
    RSum([i \in 1..Len(comps) |-> IF comps[i].val = None THEN R(0) ELSE comps[i].w])

WeightedScores(comps) ==
    RSum([i \in 1..Len(comps) |->
            IF comps[i].val = None THEN R(0) ELSE RMul(comps[i].w, comps[i].val)])

EffectiveWeights(comps) ==
    [i \in 1..Len(comps) |->
        IF comps[i].val = None THEN R(0)
        ELSE Quot(comps[i].w, AvailableWeight(comps))]

BlendIsRenormalised(comps, score, blend) ==
    /\ score = None <=> \A i \in 1..Len(comps) : comps[i].val = None
    /\ score # None =>
        /\ blend = Quot(WeightedScores(comps), AvailableWeight(comps))
        /\ RSum(EffectiveWeights(comps)) = R(1)

\* the recession components as they enter the blend
RecEntering ==
    << [val |-> CurveEffective(rec.curve_score, rec.sahm_score, rec.coin_score),
        w |-> Frac(50, 100)],
       [val |-> rec.sahm_score, w |-> Frac(30, 100)],
       [val |-> rec.coin_score, w |-> Frac(20, 100)] >>

C2_BlendRenormalises ==
    /\ rec.called => BlendIsRenormalised(RecEntering, rec.score, rec.blend)
    /\ cs.called => BlendIsRenormalised(cs.weights, cs.score, cs.blend)

\* C2 witness: two of the six credit components are available, with
\* different scores; the blend is (0.30 * 100 + 0.10 * 200/3) / 0.40
C2_Witness ==
    /\ cs.called
    /\ cs.weights[1].val = R(100)
    /\ cs.weights[2].val = Frac(200, 3)
    /\ \A i \in 3..6 : cs.weights[i].val = None
    /\ cs.blend = Frac(275, 3)

----------------------------------------------------------------------------
(* C4: a composite builder that returns score None returns a warnings list *)
(* that is not empty and has a message for each unavailable component,     *)
(* whatever made the components unavailable.                               *)
C4_WarningsWhenUnavailable ==
    /\ (rec.called /\ rec.score = None) => Len(rec.warnings) = 3
    /\ (cs.called /\ cs.score = None) =>
        /\ cs.warnings # <<>>
        /\ Len(cs.warnings) >= Len(cs.weights)

\* C4 failing state: every series of the credit builder came back empty, and
\* the builder returned None with no warning at all
C4_EmptySeriesNoWarning ==
    /\ cs.called /\ cs.score = None
    /\ \A i \in 1..Len(last.calls) : last.calls[i] = "nodata"
    /\ cs.warnings = <<>>

----------------------------------------------------------------------------
(* C5: with all three recession components available, the curve score      *)
(* enters the blend as min(curve, 35) exactly when sahm < 20 and           *)
(* coin < 15, and unchanged when sahm >= 20 or coin >= 15; the cap is      *)
(* applied before blending: 80, 10, 5 give 0.5*35 + 0.3*10 + 0.2*5 = 21.5. *)
C5_CurveCap ==
    (rec.called /\ rec.curve_score # None /\ rec.sahm_score # None
                /\ rec.coin_score # None) =>
        LET low == RLt(rec.sahm_score, R(20)) /\ RLt(rec.coin_score, R(15))
            entering == IF low THEN RMin(rec.curve_score, R(35)) ELSE rec.curve_score
            blended == RAdd(RAdd(RMul(Frac(5, 10), entering),
                                 RMul(Frac(3, 10), rec.sahm_score)),
                            RMul(Frac(2, 10), rec.coin_score))
        IN  /\ rec.blend = blended
            /\ rec.score = blended

\* C5 witness: curve 80, sahm 10, coin 5 give 21.5
C5_Witness ==
    /\ rec.called
    /\ rec.curve_score = R(80) /\ rec.sahm_score = R(10) /\ rec.coin_score = R(5)
    /\ rec.score = Frac(215, 10)

----------------------------------------------------------------------------
(* C6: with a component available and blend B, build_credit_stress_dial    *)
(* returns clamp(B + 5, 0, 100) when the rank of the current HY one-month  *)
(* change among the past ones is >= 90, and clamp(B, 0, 100) when it is    *)
(* below 90 or the HY series has 40 or fewer observations; the bonus comes *)
(* before the clamp, so B above 95 with the kicker returns exactly 100.    *)
C6_KickerBeforeClamp ==
    (cs.called /\ cs.score # None) =>
        LET active == cs.kick # None /\ RLe(R(90), cs.kick)
            capped(x) == RMax(R(0), RMin(R(100), x))
        IN  /\ cs.kick_n <= 40 => ~active
            /\ active => cs.score = capped(RAdd(cs.blend, R(5)))
            /\ ~active => cs.score = capped(cs.blend)
            /\ (active /\ RLt(R(95), cs.blend)) => cs.score = R(100)

\* C6 witness: a blend between 95 and 100 with the kicker active
C6_Witness ==
    /\ cs.called
    /\ cs.kick # None /\ RLe(R(90), cs.kick)
    /\ RLt(R(95), cs.blend) /\ RLt(cs.blend, R(100))
    /\ cs.score = R(100)

----------------------------------------------------------------------------
(* What the output file holds for a dial: the number of the card with that *)
(* id, None when there is no file, no such card, or no number on the card  *)
CardsOnFile ==
    IF outfile.kind = "json" THEN outfile.doc.fields["cards"].items ELSE <<>>

PublishedBefore(id) ==
    LET hits == {i \in 1..Len(CardsOnFile) : CardsOnFile[i].fields["id"].str = id}
    IN  IF hits = {} THEN None
        ELSE LET c == CardsOnFile[CHOOSE i \in hits : TRUE].fields
             IN  IF "value" \in DOMAIN c THEN c["value"].num ELSE None

\* the number on the card of a dial in the list being built, None without one
ValueOnCard(id) ==
    LET hits == {i \in 1..Len(cards) : cards[i].id = id}
    IN  IF hits = {} THEN None
        ELSE LET c == cards[CHOOSE i \in hits : TRUE]
             IN  IF "value" \in DOMAIN c THEN c.value ELSE None

InRange(x) == RLe(R(0), x) /\ RLe(x, R(100))

----------------------------------------------------------------------------
(* C3: over the daily runs that start without an output file and in which  *)
(* only this program writes the file, every score a composite builder      *)
(* returns, unless None, lies in [0,100], and so does every number on a    *)
(* recession_risk or credit_stress card, in the list and on the file.      *)
C3_ScoresInRange ==
    /\ (rec.called /\ rec.score # None) => InRange(rec.score)
    /\ (cs.called /\ cs.score # None) => InRange(cs.score)
    /\ \A id \in CompositeIds :
        /\ ValueOnCard(id) # None => InRange(ValueOnCard(id))
        /\ PublishedBefore(id) # None => InRange(PublishedBefore(id))

\* C3 witness: a second run in which the kicker lifts a blend of 100 and the
\* previous value was 100 as well
C3_Witness ==
    /\ run = 2 /\ pc = "returned"
    /\ cs.score = R(100) /\ cs.blend = R(100)
    /\ cs.kick # None /\ RLe(R(90), cs.kick)
    /\ PublishedBefore("credit_stress") = R(100)
    /\ ValueOnCard("credit_stress") = R(100)
    /\ ValueOnCard("recession_risk") # None

----------------------------------------------------------------------------
(* C7: the number published for a composite dial is                        *)
(* round(0.20 * fresh + 0.80 * prev), fresh the builder's score of this    *)
(* run and prev the number of the card with the same id in the previous    *)
(* run's output; without a previous output, without such a card or without *)
(* a number on it, the number published is round(fresh).  What a run       *)
(* writes for the dial is the number on its card.  40 and 60 publish 44.   *)
C7_Published ==
    (last.dial \in CompositeIds /\ CompositeScore(last.dial) # None) =>
        LET fresh == CompositeScore(last.dial)
            prev == PublishedBefore(last.dial)
        IN  ValueOnCard(last.dial) =
                IF prev = None THEN PyRound0(fresh)
                ELSE PyRound0(RAdd(RMul(Frac(20, 100), fresh), RMul(Frac(80, 100), prev)))

C7_Written ==
    pc = "returned" =>
        \A id \in CompositeIds : PublishedBefore(id)' = ValueOnCard(id)

\* C7: the value published is the smoothed, rounded one in every state, and
\* every write puts the number of the card on the file
C7_SmoothedAcrossRuns == []C7_Published /\ [][C7_Written]_vars

\* C7 witness: the previous run published 40, this run's score is 60
C7_Witness ==
    /\ last.dial = "recession_risk"
    /\ PublishedBefore("recession_risk") = R(40)
    /\ rec.score = R(60)
    /\ ValueOnCard("recession_risk") = R(44)

----------------------------------------------------------------------------
(* C9: the status published for a composite dial is                        *)
(* status_from_band(value, good_max, warn_max, higher_is_worse=True) of    *)
(* its smoothed value, with bands 35 and 60 for Recession Risk and 40 and  *)
(* 65 for Credit Stress: a value equal to good_max is GOOD, one equal to   *)
(* warn_max is WARN.                                                       *)
C9_StatusFromBand ==
    (last.dial \in CompositeIds /\ last.sm # None) =>
        Last(cards).status =
            IF last.dial = "recession_risk"
            THEN status_from_band(last.sm, R(35), R(60), TRUE)
            ELSE status_from_band(last.sm, R(40), R(65), TRUE)

\* C9 failing state: a smoothed recession value of exactly 35 published as WARN
C9_GoodMaxPublishedWarn ==
    /\ last.dial = "recession_risk"
    /\ last.sm = R(35)
    /\ Last(cards).status = "WARN"

----------------------------------------------------------------------------
(* C11: tail_since returns the empty series unchanged, and for a series    *)
(* ascending by date, whatever valid date the last observation has (29     *)
(* February included) and whatever years >= 0, it does not raise and       *)
(* returns exactly the observations dated on or after the last date moved  *)
(* back by years calendar years, in their order: a suffix of the series    *)
(* that contains the last observation.                                     *)
IsSuffixWithLast(t, series) ==
    /\ t # <<>>
    /\ Len(t) <= Len(series)
    /\ t = SubSeq(series, Len(series) - Len(t) + 1, Len(series))

C11_TailSinceTotal ==
    call.fn = "tail_since" =>
        /\ ~call.out.raised
        /\ call.series = <<>> => call.out.series = <<>>
        /\ call.series # <<>> =>
            LET last_d == call.series[Len(call.series)][1]
                back == last_d - 10000 * call.years
            IN  /\ IsSuffixWithLast(call.out.series, call.series)
                /\ ~to_date_raises(back) =>
                    call.out.series = SelectSeq(call.series, LAMBDA o : o[1] >= back)

\* C11 failing state: a series ending on 29 February 2024, fifteen years back
C11_LeapDayRaises ==
    /\ call.fn = "tail_since"
    /\ call.series = <<<<20240229, 1>>>>
    /\ call.years = 15
    /\ call.out.raised

----------------------------------------------------------------------------
(* C12: in the momentum kicker the current one-month change is taken with  *)
(* the same 31-observation offset as the changes it is ranked against:     *)
(* for the HY series h of length n > 40 the current change is              *)
(* h[n-1] - h[n-1-31], the history is h[i] - h[i-31] for 31 <= i <= n-1    *)
(* (positions counted from 0), and the current change is the last element  *)
(* of the history.                                                         *)
C12_SameOffset ==
    (cs.called /\ cs.kick # None) =>
        LET h == cs.kick_hy
            n == Len(h)
        IN  /\ n > 40
            /\ cs.kick_chgs = [k \in 1..(n - 31) |-> h[k + 31] - h[k]]
            /\ cs.kick_chg = h[n] - h[n - 31]
            /\ cs.kick_chg = cs.kick_chgs[Len(cs.kick_chgs)]

\* C12 failing state: the current change spans 30 observations and is not the
\* last change of the history
C12_OffsetThirty ==
    /\ cs.called /\ cs.kick # None
    /\ cs.kick_chg = cs.kick_hy[Len(cs.kick_hy)] - cs.kick_hy[Len(cs.kick_hy) - 30]
    /\ cs.kick_chg # cs.kick_chgs[Len(cs.kick_chgs)]
    /\ cs.kick = R(0)

----------------------------------------------------------------------------
(* C13: in build_recession_dial a confirmation that is unavailable counts  *)
(* as not confirming: whenever each of sahm and coin is unavailable or     *)
(* below its threshold (20, 15), the curve enters the blend as             *)
(* min(curve, 35).  So with the curve the only component the score is at   *)
(* most 35, and with all three available and the cap applied the score is  *)
(* below 0.5*35 + 0.3*20 + 0.2*15 = 26.5.                                  *)
NotConfirming(score, threshold) == score = None \/ RLt(score, R(threshold))

C13_UnavailableDoesNotConfirm ==
    (rec.called /\ rec.curve_score # None
        /\ NotConfirming(rec.sahm_score, 20) /\ NotConfirming(rec.coin_score, 15)) =>
        LET capped == << [val |-> RMin(rec.curve_score, R(35)), w |-> Frac(50, 100)],
                         [val |-> rec.sahm_score, w |-> Frac(30, 100)],
                         [val |-> rec.coin_score, w |-> Frac(20, 100)] >>
        IN  /\ rec.score = Quot(WeightedScores(capped), AvailableWeight(capped))
            /\ (rec.sahm_score = None /\ rec.coin_score = None) =>
                    RLe(rec.score, R(35))
            /\ (rec.sahm_score # None /\ rec.coin_score # None) =>
                    RLt(rec.score, Frac(265, 10))

\* C13 witness: the curve alone, with a percentile score of 80, returns 35
C13_Witness ==
    /\ rec.called
    /\ rec.curve_score = R(80)
    /\ rec.sahm_score = None /\ rec.coin_score = None
    /\ rec.score = R(35)

----------------------------------------------------------------------------
(* C14: when a composite dial builds in every run with the same fresh      *)
(* score c in [0,100] and the value published before was written by this   *)
(* program, the value published moves toward c from run to run, never to   *)
(* the other side of c and never away from it, and after finitely many     *)
(* runs it stays at an integer p with |p - c| <= 2.5.  Checked run by run: *)
(* the value a run publishes is an integer between the value before and c; *)
(* a run that leaves the value where it was has it within 2.5 of c, and    *)
(* with the same c so does every later run; an integer that only moves     *)
(* towards c moves finitely often, and by run SteadyRuns it has stopped.   *)
IsInteger(x) == x[2] = 1

\* x lies between a and b, ends included
Between(a, x, b) == (RLe(a, x) /\ RLe(x, b)) \/ (RLe(b, x) /\ RLe(x, a))

Near(p, c) == RLe(RSub(p, c), Frac(5, 2)) /\ RLe(RSub(c, p), Frac(5, 2))

C14_ConvergesToFresh ==
    (call.fn = "steady" /\ last.dial \in CompositeIds) =>
        LET c == CompositeScore(last.dial)
            p == PublishedBefore(last.dial)
            q == ValueOnCard(last.dial)
        IN  /\ c # None /\ InRange(c)
            /\ p # None /\ q # None
            /\ IsInteger(p) /\ IsInteger(q)
            /\ Between(p, q, c)
            /\ q = p => Near(p, c)
            /\ run = SteadyRuns => q = p

\* C14 witness: a fresh score of 21.5 every day; the published value came down
\* from 37 and stays at 24
C14_Witness ==
    /\ call.fn = "steady"
    /\ last.dial = "recession_risk"
    /\ rec.score = Frac(215, 10)
    /\ run > 5
    /\ PublishedBefore("recession_risk") = R(24)
    /\ ValueOnCard("recession_risk") = R(24)

====
